---- MODULE Spec2Model ----
(***************************************************************************)
(* Model of the copy-trading bot's decision-and-safety pipeline:           *)
(*   src/src/risk.rs      RiskManager (circuit breaker, daily stats,       *)
(*                        per-event exposure)                              *)
(*   src/src/main.rs      the main loop and the daily-reset task           *)
(*   src/src/executor.rs  execute_with_retry                               *)
(*   src/src/watcher.rs   the watchers' side of the bounded channel        *)
(*                                                                         *)
(* Three specifications over the same state:                               *)
(*   Spec          one caller making RiskManager calls one after another   *)
(*   SpecConc      two callers, each call split at its critical sections   *)
(*   SpecPipeline  the program: watchers, main, the daily-reset task       *)
(*                                                                         *)
(* Amounts (f64 USD in the source) are modelled as whole units: integer    *)
(* sums of this size are exact in f64, and every amount the program can    *)
(* produce is finite (JSON numbers and the clamped size).                  *)
(* Option<T> is a sequence: <<>> is None, <<v>> is Some(v).                *)
(***************************************************************************)
EXTENDS Integers, Sequences, FiniteSets, TLC

\* ------------------------------------------------------------------ bounds
MaxTrigger == 2
MaxErrors == 3
MaxTrades == 2
MaxSize == 2
MaxLiquidity == 2
MaxRetry == 2
QueueCap == 1
MaxDays == 1

\* Event-group ids seen in Trade.event_id.
Groups == {"event1", "event2"}
Sizes == 0..MaxSize
Liquidities == 0..MaxLiquidity

None == <<>>
Some(v) == <<v>>

VARIABLES
    config,          \* RiskManager.config (immutable after new)
    state,           \* RiskManager.state : Mutex<CircuitBreakerState>
    event_exposure,  \* RiskManager.event_exposure : Mutex<HashMap<String,f64>>
    lastOp,          \* the last RiskManager call: name, arguments, result, pre-state
    recorded,        \* per group: sum of sizes given to record_trade since the last reset_daily_stats
    errRun,          \* record_error calls since the last record_trade (while no breaker reset was made)
    runReachedTrigger, \* some record_error call brought errRun to cb_consecutive_trigger
    cbResetCalled,   \* reset_circuit_breaker has been called
    resetsInRow,     \* number of reset_daily_stats calls made back to back (capped at 2)
    stateLock,       \* holder of the state mutex between two steps of a call, or None
    frame,           \* per thread: the RiskManager call it is in and its position
    queue,           \* the bounded channel from the watchers to main
    main,            \* main's loop: position and locals
    ev,              \* about the event main is processing: breaker at dequeue, orders placed, trade recorded
    exec,            \* a TradeExecutor call: its order, its loop's locals, the calls it made, its result
    sentLog,         \* the trades the watchers have sent that main has not received yet, in sending order
    sizing,          \* a PositionSizer::calculate_size call: its arguments and its result
    timer,           \* the daily-reset task: the clock, its interval and the resets it made
    ws               \* per wallet: the watcher task's position in watch_wallet

obsVars == <<lastOp, recorded, errRun, runReachedTrigger, cbResetCalled, resetsInRow>>
concVars == <<stateLock, frame>>
chanVars == <<queue, sentLog>>
libVars == <<exec, sizing, timer, ws>>
pipeVars == <<chanVars, main, ev, libVars>>
vars == <<config, state, event_exposure, lastOp, recorded, errRun,
          runReachedTrigger, cbResetCalled, resetsInRow, stateLock, frame,
          queue, main, ev, exec, sentLog, sizing, timer, ws>>

\* ------------------------------------------------------------ configuration
\* The risk thresholds of Config. The two liquidity floors are independent,
\* so both orders of min_liquidity and cb_min_depth_usd occur.
TrackedWallets == {"0xwhale1", "0xwhale2"}

\* Config::default, types.rs 23-24.
DefaultRetryAttempts == 4
DefaultRetryDelayMs == 500

MakeConfig(t, f, r) ==
    [wallets_to_track |-> TrackedWallets,
     cb_consecutive_trigger |-> t, max_daily_volume |-> 3,
     max_exposure_per_event |-> 2, min_liquidity |-> f[1],
     cb_min_depth_usd |-> f[2], retry_attempts |-> r,
     retry_delay_ms |-> DefaultRetryDelayMs]

Configs ==
    { MakeConfig(t, <<2, 1>>, MaxRetry) : t \in 1..MaxTrigger }
        \cup { MakeConfig(MaxTrigger, <<1, 2>>, MaxRetry) }

\* --------------------------------------------------------- RiskManager::new
NewState ==
    [consecutive_errors |-> 0, total_trades_today |-> 0,
     total_volume_today |-> 0, is_tripped |-> FALSE, trip_reason |-> None]

NewExposure == [g \in Groups |-> None]

\* exposure.get(&trade.event_id).copied().unwrap_or(0.0)
current_exposure(exposure, event_id) ==
    IF exposure[event_id] = None THEN 0 ELSE exposure[event_id][1]

\* ------------------------------------------------ RiskManager::check_can_trade
\* The five checks, each as the condition under which the code bails.
breaker_check(st) == st.is_tripped

\* Mutant: a trade landing exactly on the daily limit is rejected.
volume_check_inclusive(st, cfg, size_usd) ==
    st.total_volume_today + size_usd >= cfg.max_daily_volume

volume_check(st, cfg, size_usd) ==
    st.total_volume_today + size_usd > cfg.max_daily_volume

\* Mutant: no trade is refused for its event group's exposure.
exposure_check_off(exposure, cfg, event_id, size_usd) == FALSE

exposure_check(exposure, cfg, event_id, size_usd) ==
    current_exposure(exposure, event_id) + size_usd > cfg.max_exposure_per_event

liquidity_check(cfg, liquidity) == liquidity < cfg.min_liquidity

depth_ok(cfg, liquidity) == liquidity >= cfg.cb_min_depth_usd

\* Mutant: the daily-volume check runs before the breaker check.
check_can_trade_swapped(st, exposure, cfg, event_id, liquidity, size_usd) ==
    IF volume_check(st, cfg, size_usd) THEN "Daily volume limit exceeded"
    ELSE IF breaker_check(st) THEN "Circuit breaker tripped"
    ELSE IF exposure_check(exposure, cfg, event_id, size_usd)
        THEN "Event exposure limit exceeded"
    ELSE IF liquidity_check(cfg, liquidity) THEN "Insufficient liquidity"
    ELSE IF ~depth_ok(cfg, liquidity) THEN "Orderbook depth too low"
    ELSE "Ok"

\* The result of a whole call made with nothing interleaved: Ok or the
\* message of the first bail! reached.
check_can_trade_result(st, exposure, cfg, event_id, liquidity, size_usd) ==
    IF breaker_check(st) THEN "Circuit breaker tripped"
    ELSE IF volume_check(st, cfg, size_usd) THEN "Daily volume limit exceeded"
    ELSE IF exposure_check(exposure, cfg, event_id, size_usd)
        THEN "Event exposure limit exceeded"
    ELSE IF liquidity_check(cfg, liquidity) THEN "Insufficient liquidity"
    ELSE IF ~depth_ok(cfg, liquidity) THEN "Orderbook depth too low"
    ELSE "Ok"

\* ---------------------------------------------------- the mutating methods
\* Mutant: a successful trade also clears the breaker.
record_trade_clears_breaker(st, size_usd) ==
    [st EXCEPT !.total_trades_today = @ + 1,
               !.total_volume_today = @ + size_usd,
               !.consecutive_errors = 0,
               !.is_tripped = FALSE,
               !.trip_reason = None]

\* Mutant: a successful trade leaves the error count alone.
record_trade_keeps_errors(st, size_usd) ==
    [st EXCEPT !.total_trades_today = @ + 1,
               !.total_volume_today = @ + size_usd]

record_trade_state(st, size_usd) ==
    [st EXCEPT !.total_trades_today = @ + 1,
               !.total_volume_today = @ + size_usd,
               !.consecutive_errors = 0]

\* Mutant: insert(event_id, size_usd) instead of accumulating.
record_trade_exposure_overwrite(exposure, event_id, size_usd) ==
    [exposure EXCEPT ![event_id] = Some(size_usd)]

record_trade_exposure(exposure, event_id, size_usd) ==
    [exposure EXCEPT ![event_id] = Some(current_exposure(exposure, event_id) + size_usd)]

\* Mutant: > instead of >=, the breaker trips one error late.
record_error_late(st, cfg) ==
    LET n == st.consecutive_errors + 1 IN
    IF n > cfg.cb_consecutive_trigger
    THEN [st EXCEPT !.consecutive_errors = n, !.is_tripped = TRUE,
                    !.trip_reason = Some(n)]
    ELSE [st EXCEPT !.consecutive_errors = n]

record_error_state(st, cfg) ==
    LET n == st.consecutive_errors + 1 IN
    IF n >= cfg.cb_consecutive_trigger
    THEN [st EXCEPT !.consecutive_errors = n, !.is_tripped = TRUE,
                    !.trip_reason = Some(n)]
    ELSE [st EXCEPT !.consecutive_errors = n]

\* Mutant: the reset leaves the reason of the last trip in place.
reset_circuit_breaker_keeps_reason(st) ==
    [st EXCEPT !.is_tripped = FALSE, !.consecutive_errors = 0]

reset_circuit_breaker_state(st) ==
    [st EXCEPT !.is_tripped = FALSE, !.consecutive_errors = 0,
               !.trip_reason = None]

\* Mutant: the daily reset also clears the breaker.
reset_daily_stats_clears_breaker(st) ==
    [st EXCEPT !.total_trades_today = 0, !.total_volume_today = 0,
               !.is_tripped = FALSE, !.trip_reason = None]

\* Mutant: the daily reset also zeroes the error count.
reset_daily_stats_clears_errors(st) ==
    [st EXCEPT !.total_trades_today = 0, !.total_volume_today = 0,
               !.consecutive_errors = 0]

\* Mutant: the daily reset lets one error decay.
reset_daily_stats_decay(st) ==
    [st EXCEPT !.total_trades_today = 0, !.total_volume_today = 0,
               !.consecutive_errors = IF @ > 0 THEN @ - 1 ELSE 0]

reset_daily_stats_state(st) ==
    [st EXCEPT !.total_trades_today = 0, !.total_volume_today = 0]

reset_daily_stats_exposure(exposure) == [g \in Groups |-> None]

\* ------------------------------------------------------------- observation
Call(op, event_id, size_usd, liquidity, result) ==
    [op |-> op, event_id |-> event_id, size_usd |-> size_usd,
     liquidity |-> liquidity, result |-> result,
     pre_state |-> state, pre_exposure |-> event_exposure]

NoArg == "-"

\* ------------------------------------------------------------ call frames
\* Callers of the concurrent specification.
Threads == {"t1", "t2"}
\* main's loop and the daily-reset task it spawns.
PipelineThreads == {"main", "timer"}
AllThreads == Threads \cup PipelineThreads

NoTrade == [wallet |-> NoArg, event_id |-> NoArg]

MainIdle ==
    [pc |-> "recv", trade |-> NoTrade, liquidity |-> 0, whale_balance |-> 0,
     size_usd |-> 0, attempts |-> 0, last_error |-> None]

\* What main has done for the event it dequeued last: the calls it made for
\* the event, the writes those calls made to the RiskManager, and how the
\* event ended.
NewEv(trade, st) ==
    [trade |-> trade, trippedAtRecv |-> st.is_tripped,
     fetches |-> 0, whaleFetchFailed |-> FALSE,
     checked |-> None, checkResult |-> None,
     orders |-> 0, traded |-> FALSE, recordedSize |-> None,
     errors |-> 0, failure |-> "none", ordersAtFailure |-> 0,
     writes |-> 0]

\* No TradeExecutor call in progress.
ExecIdle ==
    [pc |-> "idle", method |-> "none", trade |-> NoTrade, shares |-> 0,
     usd_amount |-> 0, order |-> None,
     attempts |-> 0, last_error |-> None, log |-> <<>>, result |-> None]

IdleFrame ==
    [method |-> "none", pc |-> "idle", event_id |-> NoArg, size_usd |-> 0,
     liquidity |-> 0, result |-> "Ok", interleaved |-> FALSE]

\* ------------------------------------------- one caller, one call at a time
InitObs ==
    /\ lastOp = [op |-> "new", event_id |-> NoArg, size_usd |-> 0,
                 liquidity |-> 0, result |-> "Ok",
                 pre_state |-> NewState, pre_exposure |-> NewExposure]
    /\ recorded = [g \in Groups |-> 0]
    /\ errRun = 0
    /\ runReachedTrigger = FALSE
    /\ cbResetCalled = FALSE
    /\ resetsInRow = 0

InitConcVars ==
    /\ stateLock = None
    /\ frame = [t \in AllThreads |-> IdleFrame]

InitPipeVars ==
    /\ queue = <<>>
    /\ main = MainIdle
    /\ ev = NewEv(NoTrade, NewState)
    /\ exec = ExecIdle
    /\ sentLog = <<>>
    /\ sizing = None
    /\ timer = None
    /\ ws = None

Init ==
    /\ config \in Configs
    /\ InitObs
    /\ InitConcVars
    /\ InitPipeVars
    /\ state = NewState
    /\ event_exposure = NewExposure

check_can_trade ==
    \E event_id \in Groups, liquidity \in Liquidities, size_usd \in Sizes :
        /\ lastOp' = Call("check_can_trade", event_id, size_usd, liquidity,
                          check_can_trade_result(state, event_exposure, config,
                                                 event_id, liquidity, size_usd))
        /\ resetsInRow' = 0
        /\ UNCHANGED <<config, state, event_exposure, recorded, errRun,
                       runReachedTrigger, cbResetCalled, concVars, pipeVars>>

record_trade ==
    \E event_id \in Groups, size_usd \in Sizes :
        /\ state.total_trades_today < MaxTrades
        /\ state' = record_trade_state(state, size_usd)
        /\ event_exposure' = record_trade_exposure(event_exposure, event_id, size_usd)
        /\ lastOp' = Call("record_trade", event_id, size_usd, 0, "Ok")
        /\ recorded' = [recorded EXCEPT ![event_id] = @ + size_usd]
        /\ errRun' = 0
        /\ resetsInRow' = 0
        /\ UNCHANGED <<config, runReachedTrigger, cbResetCalled, concVars, pipeVars>>

record_error ==
    /\ state.consecutive_errors < MaxErrors
    /\ state' = record_error_state(state, config)
    /\ lastOp' = Call("record_error", NoArg, 0, 0, "Ok")
    /\ errRun' = IF cbResetCalled THEN 0 ELSE errRun + 1
    /\ runReachedTrigger' =
          (runReachedTrigger \/
             (~cbResetCalled /\ errRun + 1 = config.cb_consecutive_trigger))
    /\ resetsInRow' = 0
    /\ UNCHANGED <<config, event_exposure, recorded, cbResetCalled, concVars, pipeVars>>

reset_circuit_breaker ==
    /\ state' = reset_circuit_breaker_state(state)
    /\ lastOp' = Call("reset_circuit_breaker", NoArg, 0, 0, "Ok")
    /\ cbResetCalled' = TRUE
    /\ errRun' = 0
    /\ runReachedTrigger' = FALSE
    /\ resetsInRow' = 0
    /\ UNCHANGED <<config, event_exposure, recorded, concVars, pipeVars>>

reset_daily_stats ==
    /\ state' = reset_daily_stats_state(state)
    /\ event_exposure' = reset_daily_stats_exposure(event_exposure)
    /\ lastOp' = Call("reset_daily_stats", NoArg, 0, 0, "Ok")
    /\ recorded' = [g \in Groups |-> 0]
    /\ resetsInRow' = IF resetsInRow < 2 THEN resetsInRow + 1 ELSE 2
    /\ UNCHANGED <<config, errRun, runReachedTrigger, cbResetCalled, concVars, pipeVars>>

\* get_state returns a clone of the state: lastOp.pre_state.
get_state ==
    /\ lastOp' = Call("get_state", NoArg, 0, 0, "Ok")
    /\ resetsInRow' = 0
    /\ UNCHANGED <<config, state, event_exposure, recorded, errRun,
                   runReachedTrigger, cbResetCalled, concVars, pipeVars>>

Next ==
    \/ check_can_trade
    \/ record_trade
    \/ record_error
    \/ reset_circuit_breaker
    \/ reset_daily_stats
    \/ get_state

Spec == Init /\ [][Next]_vars

\* ------------------------------------------------- concurrent callers
\* A RiskManager call as the sequence of its critical sections. A step that
\* locks, reads or writes and unlocks within one block is one step, enabled
\* while the mutex is free. record_trade and reset_daily_stats keep the state
\* mutex from their first statement to their return and take the exposure
\* mutex on the way: two steps, the state mutex held in between.
\* check_can_trade takes the state mutex twice and the exposure mutex once,
\* each in a block of its own: three steps with no mutex held in between.
FirstPc(method) ==
    CASE method = "check_can_trade" -> "cct_breaker"
      [] method = "record_trade" -> "rt_state"
      [] method = "record_error" -> "re_state"
      [] method = "reset_circuit_breaker" -> "rcb_state"
      [] method = "reset_daily_stats" -> "rds_state"
      [] method = "get_state" -> "gs_state"

Methods ==
    {"check_can_trade", "record_trade", "record_error",
     "reset_circuit_breaker", "reset_daily_stats", "get_state"}

CanCall(t) == frame[t].pc \in {"idle", "done"}

BeginCall(t, method, event_id, size_usd, liquidity) ==
    frame' = [frame EXCEPT ![t] =
        [method |-> method, pc |-> FirstPc(method), event_id |-> event_id,
         size_usd |-> size_usd, liquidity |-> liquidity, result |-> "Ok",
         interleaved |-> FALSE]]

\* The frames after thread t's step: t moves to pc with result (a returned
\* call keeps its result and drops its arguments); when the step is a
\* mutation by record_trade, record_error or reset_daily_stats, every other
\* thread that is between the first and the last read of a check_can_trade
\* call is marked interleaved.
Advance(t, pc, result, mutates) ==
    [u \in AllThreads |->
        IF u = t
        THEN IF pc = "done"
             THEN [frame[t] EXCEPT !.pc = pc, !.result = result,
                                   !.event_id = NoArg, !.size_usd = 0,
                                   !.liquidity = 0]
             ELSE [frame[t] EXCEPT !.pc = pc, !.result = result]
        ELSE IF mutates /\ frame[u].pc \in {"cct_volume", "cct_exposure"}
             THEN [frame[u] EXCEPT !.interleaved = TRUE]
             ELSE frame[u]]

\* Mutant: check_can_trade keeps its first state guard to the end of the
\* call instead of dropping it with the block.
locks_held_through_check(pc) ==
    IF pc \in {"cct_volume", "cct_exposure", "rt_exposure", "rds_exposure"}
    THEN {"state"} ELSE {}

\* The mutexes a caller holds when it is about to run the section at pc:
\* record_trade and reset_daily_stats hold the state guard, bound with let at
\* risk.rs 73 and 111, when they lock the exposure map (78, 115); every other
\* guard is dropped with its block or statement.
locks_held(pc) ==
    IF pc \in {"rt_exposure", "rds_exposure"} THEN {"state"} ELSE {}

\* The mutex the section at pc locks: risk.rs 30, 38, 73, 90, 103, 111, 122
\* (state) and 47, 78, 115 (exposure).
lock_wanted(pc) ==
    CASE pc \in {"cct_breaker", "cct_volume", "rt_state", "re_state",
                 "rcb_state", "rds_state", "gs_state"} -> "state"
      [] pc \in {"cct_exposure", "rt_exposure", "rds_exposure"} -> "exposure"
      [] OTHER -> "none"

\* Mutex::lock returns when no caller holds the mutex; it is not reentrant.
LockFree(lock) == \A u \in AllThreads : lock \notin locks_held(frame[u].pc)

\* check_can_trade, first block: risk.rs 29-34.
CctBreaker(t) ==
    /\ frame[t].pc = "cct_breaker"
    /\ LockFree(lock_wanted(frame[t].pc))
    /\ stateLock = None
    /\ frame' = IF breaker_check(state)
                THEN Advance(t, "done", "Circuit breaker tripped", FALSE)
                ELSE Advance(t, "cct_volume", "Ok", FALSE)
    /\ UNCHANGED <<config, state, event_exposure, stateLock>>

\* check_can_trade, second block: risk.rs 37-43.
CctVolume(t) ==
    /\ frame[t].pc = "cct_volume"
    /\ LockFree(lock_wanted(frame[t].pc))
    /\ stateLock = None
    /\ frame' = IF volume_check(state, config, frame[t].size_usd)
                THEN Advance(t, "done", "Daily volume limit exceeded", FALSE)
                ELSE Advance(t, "cct_exposure", "Ok", FALSE)
    /\ UNCHANGED <<config, state, event_exposure, stateLock>>

\* check_can_trade, third block and the two liquidity tests: risk.rs 46-69.
CctExposure(t) ==
    /\ frame[t].pc = "cct_exposure"
    /\ LockFree(lock_wanted(frame[t].pc))
    /\ frame' = Advance(t, "done",
          IF exposure_check(event_exposure, config, frame[t].event_id,
                            frame[t].size_usd)
              THEN "Event exposure limit exceeded"
          ELSE IF liquidity_check(config, frame[t].liquidity)
              THEN "Insufficient liquidity"
          ELSE IF ~depth_ok(config, frame[t].liquidity)
              THEN "Orderbook depth too low"
          ELSE "Ok", FALSE)
    /\ UNCHANGED <<config, state, event_exposure, stateLock>>

\* record_trade up to the exposure lock: risk.rs 73-76.
RtState(t) ==
    /\ frame[t].pc = "rt_state"
    /\ LockFree(lock_wanted(frame[t].pc))
    /\ stateLock = None
    /\ state' = record_trade_state(state, frame[t].size_usd)
    /\ stateLock' = Some(t)
    /\ frame' = Advance(t, "rt_exposure", "Ok", TRUE)
    /\ UNCHANGED <<config, event_exposure>>

\* record_trade from the exposure lock to the return: risk.rs 78-87.
RtExposure(t) ==
    /\ frame[t].pc = "rt_exposure"
    /\ LockFree(lock_wanted(frame[t].pc))
    /\ stateLock = Some(t)
    /\ event_exposure' = record_trade_exposure(event_exposure, frame[t].event_id,
                                               frame[t].size_usd)
    /\ stateLock' = None
    /\ frame' = Advance(t, "done", "Ok", TRUE)
    /\ UNCHANGED <<config, state>>

\* record_error: risk.rs 89-100.
ReState(t) ==
    /\ frame[t].pc = "re_state"
    /\ LockFree(lock_wanted(frame[t].pc))
    /\ stateLock = None
    /\ state' = record_error_state(state, config)
    /\ frame' = Advance(t, "done", "Ok", TRUE)
    /\ UNCHANGED <<config, event_exposure, stateLock>>

\* reset_circuit_breaker: risk.rs 102-108.
RcbState(t) ==
    /\ frame[t].pc = "rcb_state"
    /\ LockFree(lock_wanted(frame[t].pc))
    /\ stateLock = None
    /\ state' = reset_circuit_breaker_state(state)
    /\ frame' = Advance(t, "done", "Ok", FALSE)
    /\ UNCHANGED <<config, event_exposure, stateLock>>

\* reset_daily_stats up to the exposure lock: risk.rs 111-113.
RdsState(t) ==
    /\ frame[t].pc = "rds_state"
    /\ LockFree(lock_wanted(frame[t].pc))
    /\ stateLock = None
    /\ state' = reset_daily_stats_state(state)
    /\ stateLock' = Some(t)
    /\ frame' = Advance(t, "rds_exposure", "Ok", TRUE)
    /\ UNCHANGED <<config, event_exposure>>

\* reset_daily_stats from the exposure lock to the return: risk.rs 115-119.
RdsExposure(t) ==
    /\ frame[t].pc = "rds_exposure"
    /\ LockFree(lock_wanted(frame[t].pc))
    /\ stateLock = Some(t)
    /\ event_exposure' = reset_daily_stats_exposure(event_exposure)
    /\ stateLock' = None
    /\ frame' = Advance(t, "done", "Ok", TRUE)
    /\ UNCHANGED <<config, state>>

\* get_state: risk.rs 121-123.
GsState(t) ==
    /\ frame[t].pc = "gs_state"
    /\ LockFree(lock_wanted(frame[t].pc))
    /\ stateLock = None
    /\ frame' = Advance(t, "done", "Ok", FALSE)
    /\ UNCHANGED <<config, state, event_exposure, stateLock>>

\* The inputs of the concurrent callers: the sizes that move the counters and
\* a market deep enough for both liquidity floors, under the configurations
\* with the highest trigger.
ConcSizes == {1, MaxSize}
ConcLiquidities == {MaxLiquidity}
ConcConfigs ==
    {c \in Configs : c.cb_consecutive_trigger = MaxTrigger /\ c.min_liquidity = 1}

\* A caller starts any call with any arguments.
Invoke(t) ==
    /\ CanCall(t)
    /\ \E method \in Methods :
          /\ method = "record_trade" => state.total_trades_today < MaxTrades
          /\ method = "record_error" => state.consecutive_errors < MaxErrors
          /\ IF method = "check_can_trade"
             THEN \E e \in Groups, s \in ConcSizes, l \in ConcLiquidities :
                      BeginCall(t, method, e, s, l)
             ELSE IF method = "record_trade"
             THEN \E e \in Groups, s \in ConcSizes : BeginCall(t, method, e, s, 0)
             ELSE BeginCall(t, method, NoArg, 0, 0)
    /\ UNCHANGED <<config, state, event_exposure, stateLock>>

InitConc ==
    /\ config \in ConcConfigs
    /\ state = NewState
    /\ event_exposure = NewExposure
    /\ InitObs
    /\ InitConcVars
    /\ InitPipeVars

NextConc ==
    \/ \E t \in Threads : Invoke(t) /\ UNCHANGED <<obsVars, pipeVars>>
    \/ \E t \in Threads : CctBreaker(t) /\ UNCHANGED <<obsVars, pipeVars>>
    \/ \E t \in Threads : CctVolume(t) /\ UNCHANGED <<obsVars, pipeVars>>
    \/ \E t \in Threads : CctExposure(t) /\ UNCHANGED <<obsVars, pipeVars>>
    \/ \E t \in Threads : RtState(t) /\ UNCHANGED <<obsVars, pipeVars>>
    \/ \E t \in Threads : RtExposure(t) /\ UNCHANGED <<obsVars, pipeVars>>
    \/ \E t \in Threads : ReState(t) /\ UNCHANGED <<obsVars, pipeVars>>
    \/ \E t \in Threads : RcbState(t) /\ UNCHANGED <<obsVars, pipeVars>>
    \/ \E t \in Threads : RdsState(t) /\ UNCHANGED <<obsVars, pipeVars>>
    \/ \E t \in Threads : RdsExposure(t) /\ UNCHANGED <<obsVars, pipeVars>>
    \/ \E t \in Threads : GsState(t) /\ UNCHANGED <<obsVars, pipeVars>>

SpecConc == InitConc /\ [][NextConc]_vars

\* ------------------------------------------------------- the pipeline
\* main.rs: the watchers feed the bounded channel, main consumes it one event
\* at a time, and a spawned task calls reset_daily_stats. main and the task
\* run on the runtime's worker threads, so the task's call interleaves with
\* main's calls at the RiskManager's critical sections.
riskVars == <<config, state, event_exposure, stateLock>>

Running == main.pc # "panicked"

\* The statuses place_order can answer with, and a transport/API error.
Outcomes ==
    {"filled", "partially_filled", "cancelled", "rejected", "pending", "error"}

\* The sizes calculate_size hands to the risk check.
PipeSizes == 1..MaxSize

\* The markets main sees: too shallow for either floor, or deep enough for both.
PipeLiquidities == {0, MaxLiquidity}

PipeConfigs ==
    { MakeConfig(MaxTrigger, <<1, 2>>, r) : r \in {0, MaxRetry} }

\* main starts a RiskManager call and waits for it at pc.
MainCall(method, event_id, size_usd, liquidity, pc, locals) ==
    /\ BeginCall("main", method, event_id, size_usd, liquidity)
    /\ main' = [locals EXCEPT !.pc = pc]

MainReturned == frame["main"].pc = "done"

ClearFrame == frame' = [frame EXCEPT !["main"] = IdleFrame]

\* Mutant: a send on a full channel drops the trade and returns (try_send).
Send_dropping(trade) ==
    /\ Running
    /\ queue' = IF Len(queue) < QueueCap THEN Append(queue, trade) ELSE queue
    /\ sentLog' = Append(sentLog, trade)
    /\ UNCHANGED <<riskVars, obsVars, libVars, frame, main, ev>>

\* Sender::send on the bounded(1000) channel of watcher.rs 21: the sender
\* waits while the channel is full.
Send(trade) ==
    /\ Running
    /\ Len(queue) < QueueCap
    /\ queue' = Append(queue, trade)
    /\ sentLog' = Append(sentLog, trade)
    /\ UNCHANGED <<riskVars, obsVars, libVars, frame, main, ev>>

\* watcher.rs 94: tx.send(trade).await; the trade carries the watcher's own
\* wallet (parse_trade_event).
Watcher(w) == \E g \in Groups : Send([wallet |-> w, event_id |-> g])

is_whale_verified_any(cfg, wallet) == TRUE

\* RiskManager::is_whale_verified, risk.rs 125-128.
is_whale_verified(cfg, wallet) == wallet \in cfg.wallets_to_track

\* Mutant: the next trade is taken while the last one is still in the
\* pipeline.
Recv_eager ==
    /\ queue # <<>>
    /\ main' = [MainIdle EXCEPT !.pc = "verify", !.trade = Head(queue)]
    /\ queue' = Tail(queue)
    /\ sentLog' = Tail(sentLog)
    /\ ev' = NewEv(Head(queue), state)
    /\ UNCHANGED <<riskVars, obsVars, libVars, frame>>

\* main.rs 62: trade_rx.recv().await
Recv ==
    /\ main.pc = "recv"
    /\ queue # <<>>
    /\ main' = [MainIdle EXCEPT !.pc = "verify", !.trade = Head(queue)]
    /\ queue' = Tail(queue)
    /\ sentLog' = Tail(sentLog)
    /\ ev' = NewEv(Head(queue), state)
    /\ UNCHANGED <<riskVars, obsVars, libVars, frame>>

\* main.rs 73-77
Verify ==
    /\ main.pc = "verify"
    /\ main' = IF is_whale_verified(config, main.trade.wallet)
               THEN [main EXCEPT !.pc = "get_market"]
               ELSE MainIdle
    /\ UNCHANGED <<riskVars, obsVars, libVars, frame, chanVars, ev>>

\* main.rs 79-87: a failed fetch is reported with record_error.
GetMarket ==
    /\ main.pc = "get_market"
    /\ \/ /\ \E l \in PipeLiquidities :
                main' = [main EXCEPT !.pc = "get_balance", !.liquidity = l]
          /\ ev' = [ev EXCEPT !.fetches = @ + 1]
          /\ UNCHANGED frame
       \/ /\ state.consecutive_errors < MaxErrors
          /\ MainCall("record_error", NoArg, 0, 0, "error_continue", main)
          /\ ev' = [ev EXCEPT !.fetches = @ + 1, !.errors = @ + 1,
                              !.failure = "market"]
    /\ UNCHANGED <<riskVars, obsVars, libVars, chanVars>>

\* main.rs 92-100
GetBalance ==
    /\ main.pc = "get_balance"
    /\ \/ /\ main' = [main EXCEPT !.pc = "get_whale_balance"]
          /\ ev' = [ev EXCEPT !.fetches = @ + 1]
          /\ UNCHANGED frame
       \/ /\ state.consecutive_errors < MaxErrors
          /\ MainCall("record_error", NoArg, 0, 0, "error_continue", main)
          /\ ev' = [ev EXCEPT !.fetches = @ + 1, !.errors = @ + 1,
                              !.failure = "balance"]
    /\ UNCHANGED <<riskVars, obsVars, libVars, chanVars>>

\* main.rs 106: the balance main assumes when the whale's cannot be fetched.
WhaleBalanceDefault == 1000000

\* The balances get_balance answers for the whale's wallet.
WhaleBalances == {MaxSize}

\* A result of get_balance: Ok(b) or Err.
BalanceResults ==
    {[ok |-> TRUE, value |-> b] : b \in WhaleBalances}
        \cup {[ok |-> FALSE, value |-> 0]}

whale_balance_as_fetched(r) == r.value

\* main.rs 102-108: the match on the whale's get_balance.
whale_balance_or_default(r) == IF r.ok THEN r.value ELSE WhaleBalanceDefault

\* main.rs 102-108: a failed fetch is replaced by a default, no record_error.
GetWhaleBalance ==
    /\ main.pc = "get_whale_balance"
    /\ \E r \in BalanceResults :
          /\ main' = [main EXCEPT !.pc = "size",
                                  !.whale_balance = whale_balance_or_default(r)]
          /\ ev' = [ev EXCEPT !.fetches = @ + 1, !.whaleFetchFailed = ~r.ok]
    /\ UNCHANGED <<riskVars, obsVars, libVars, frame, chanVars>>

\* main.rs 110-125: calculate_size returns Ok(size) on every path, then the
\* risk check is called with that size.
Size ==
    /\ main.pc = "size"
    /\ \E s \in PipeSizes :
          /\ MainCall("check_can_trade", main.trade.event_id, s, main.liquidity,
                      "risk", [main EXCEPT !.size_usd = s])
          /\ ev' = [ev EXCEPT !.checked = Some(s)]
    /\ UNCHANGED <<riskVars, obsVars, libVars, chanVars>>

\* Mutant: a rejection by the risk check is reported as an error.
RiskReturn_counts_rejection ==
    /\ main.pc = "risk"
    /\ MainReturned
    /\ IF frame["main"].result = "Ok"
       THEN /\ main' = [main EXCEPT !.pc = "execute", !.attempts = 0,
                                    !.last_error = None]
            /\ ev' = [ev EXCEPT !.checkResult = Some("Ok")]
            /\ ClearFrame
       ELSE /\ state.consecutive_errors < MaxErrors
            /\ MainCall("record_error", NoArg, 0, 0, "error_continue", main)
            /\ ev' = [ev EXCEPT !.checkResult = Some(frame["main"].result),
                                !.errors = @ + 1]
    /\ UNCHANGED <<riskVars, obsVars, libVars, chanVars>>

\* main.rs 125-128: a rejection skips the event.
RiskReturn ==
    /\ main.pc = "risk"
    /\ MainReturned
    /\ main' = IF frame["main"].result = "Ok"
               THEN [main EXCEPT !.pc = "execute", !.attempts = 0,
                                 !.last_error = None]
               ELSE MainIdle
    /\ ev' = [ev EXCEPT !.checkResult = Some(frame["main"].result)]
    /\ ClearFrame
    /\ UNCHANGED <<riskVars, obsVars, libVars, chanVars>>

\* executor.rs 57-87: one turn of execute_with_retry's loop, and main.rs
\* 135-148 on its return.
ExecAttempt ==
    /\ main.pc = "execute"
    /\ main.attempts < config.retry_attempts
    /\ \E o \in Outcomes :
          LET m == [main EXCEPT !.attempts = @ + 1] IN
          /\ o \in {"cancelled", "rejected"} => state.consecutive_errors < MaxErrors
          /\ IF o \in {"filled", "partially_filled"}
             THEN /\ MainCall("record_trade", main.trade.event_id,
                              main.size_usd, 0, "record", m)
                  /\ ev' = [ev EXCEPT !.orders = @ + 1, !.traded = TRUE,
                                      !.recordedSize = Some(main.size_usd)]
             ELSE IF o \in {"cancelled", "rejected"}
             THEN /\ MainCall("record_error", NoArg, 0, 0, "record", m)
                  /\ ev' = [ev EXCEPT !.orders = @ + 1, !.errors = @ + 1,
                                      !.failure = "execute",
                                      !.ordersAtFailure = ev.orders + 1]
             ELSE IF o = "error"
             THEN /\ main' = [m EXCEPT !.last_error = Some("error")]
                  /\ ev' = [ev EXCEPT !.orders = @ + 1]
                  /\ UNCHANGED frame
             ELSE /\ main' = m
                  /\ ev' = [ev EXCEPT !.orders = @ + 1]
                  /\ UNCHANGED frame
    /\ UNCHANGED <<riskVars, obsVars, libVars, chanVars>>

\* executor.rs 89-92: last_error.unwrap() panics when no attempt failed with
\* an error; otherwise main reports the failure with record_error.
ExecExhausted ==
    /\ main.pc = "execute"
    /\ main.attempts >= config.retry_attempts
    /\ IF main.last_error = None
       THEN /\ main' = [main EXCEPT !.pc = "panicked"]
            /\ ev' = [ev EXCEPT !.failure = "execute",
                                !.ordersAtFailure = ev.orders]
            /\ UNCHANGED frame
       ELSE /\ state.consecutive_errors < MaxErrors
            /\ MainCall("record_error", NoArg, 0, 0, "record", main)
            /\ ev' = [ev EXCEPT !.errors = @ + 1, !.failure = "execute",
                                !.ordersAtFailure = ev.orders]
    /\ UNCHANGED <<riskVars, obsVars, libVars, chanVars>>

\* main.rs 150-151: after the outcome is recorded, get_state.
RecordReturn ==
    /\ main.pc = "record"
    /\ MainReturned
    /\ MainCall("get_state", NoArg, 0, 0, "status", main)
    /\ UNCHANGED <<riskVars, obsVars, libVars, chanVars, ev>>

\* main.rs 152-161
StatusReturn ==
    /\ main.pc = "status"
    /\ MainReturned
    /\ main' = MainIdle
    /\ ClearFrame
    /\ UNCHANGED <<riskVars, obsVars, libVars, chanVars, ev>>

\* main.rs 85, 98: continue after record_error.
ErrorReturn ==
    /\ main.pc = "error_continue"
    /\ MainReturned
    /\ main' = MainIdle
    /\ ClearFrame
    /\ UNCHANGED <<riskVars, obsVars, libVars, chanVars, ev>>

\* main.rs 48-57: a tick of the hourly interval that falls in the first
\* minute of hour 0 calls reset_daily_stats.
TimerReset ==
    /\ Running
    /\ CanCall("timer")
    /\ BeginCall("timer", "reset_daily_stats", NoArg, 0, 0)
    /\ UNCHANGED <<riskVars, obsVars, libVars, chanVars, main, ev>>

\* A critical section of thread t's RiskManager call; a section of main's
\* call that changes the state or the exposure map is a write of its event.
PipeStep(t, A) ==
    /\ Running
    /\ A
    /\ ev' = IF t = "main" /\ <<state', event_exposure'>> # <<state, event_exposure>>
             THEN [ev EXCEPT !.writes = @ + 1]
             ELSE ev
    /\ UNCHANGED <<obsVars, libVars, chanVars, main>>

InitPipeline ==
    /\ config \in PipeConfigs
    /\ state = NewState
    /\ event_exposure = NewExposure
    /\ InitObs
    /\ InitConcVars
    /\ InitPipeVars

NextPipeline ==
    \/ \E w \in config.wallets_to_track : Watcher(w)
    \/ Recv
    \/ Verify
    \/ GetMarket
    \/ GetBalance
    \/ GetWhaleBalance
    \/ Size
    \/ RiskReturn
    \/ ExecAttempt
    \/ ExecExhausted
    \/ RecordReturn
    \/ StatusReturn
    \/ ErrorReturn
    \/ TimerReset
    \/ \E t \in PipelineThreads : PipeStep(t, CctBreaker(t))
    \/ \E t \in PipelineThreads : PipeStep(t, CctVolume(t))
    \/ \E t \in PipelineThreads : PipeStep(t, CctExposure(t))
    \/ \E t \in PipelineThreads : PipeStep(t, RtState(t))
    \/ \E t \in PipelineThreads : PipeStep(t, RtExposure(t))
    \/ \E t \in PipelineThreads : PipeStep(t, ReState(t))
    \/ \E t \in PipelineThreads : PipeStep(t, RdsState(t))
    \/ \E t \in PipelineThreads : PipeStep(t, RdsExposure(t))
    \/ \E t \in PipelineThreads : PipeStep(t, GsState(t))

SpecPipeline == InitPipeline /\ [][NextPipeline]_vars

\* ------------------------------------------------- the loop on its own
\* main's loop (main.rs 62-162) as a consumer of its channel, whoever holds
\* the Sender: the wallet of a received Trade is any string, tracked or not.
\* In the assembled program only the watchers send, so only SpecPipeline's
\* trades arrive; this specification is the loop's own contract.
Wallets == TrackedWallets \cup {"0xstranger"}

NextOrchestrator ==
    \/ \E w \in Wallets, g \in Groups : Send([wallet |-> w, event_id |-> g])
    \/ Recv
    \/ Verify
    \/ GetMarket
    \/ GetBalance
    \/ GetWhaleBalance
    \/ Size
    \/ RiskReturn
    \/ ExecAttempt
    \/ ExecExhausted
    \/ RecordReturn
    \/ StatusReturn
    \/ ErrorReturn
    \/ PipeStep("main", CctBreaker("main"))
    \/ PipeStep("main", CctVolume("main"))
    \/ PipeStep("main", CctExposure("main"))
    \/ PipeStep("main", RtState("main"))
    \/ PipeStep("main", RtExposure("main"))
    \/ PipeStep("main", ReState("main"))
    \/ PipeStep("main", GsState("main"))

SpecOrchestrator == InitPipeline /\ [][NextOrchestrator]_vars

\* --------------------------------------------------------- TradeExecutor
\* execute_trade and the retry loop it ends in, with every place_order and
\* every sleep of the call kept in exec.log in the order they were made.
TradeSides == {"BUY", "SELL"}

MarketIds == {"market1", "market2"}

\* The share counts main hands to execute_trade.
ExecShares == {1, MaxSize}

\* Trade.price
ExecPrices == {1}

ExecTrades ==
    [market_id : MarketIds, side : TradeSides, price : ExecPrices]

\* OrderResponse.status: the four statuses the loop tests, and one it does not.
Statuses == {"filled", "partially_filled", "cancelled", "rejected", "pending"}

\* The errors place_order returns (transport, HTTP, JSON).
ApiErrors == {"timeout", "bad_gateway"}

\* A result of place_order: Ok(resp) with resp.status, or Err(e).
PlaceResults ==
    [ok : {TRUE}, status : Statuses, error : {NoArg}]
        \cup [ok : {FALSE}, status : {NoArg}, error : ApiErrors]

ExecConfigs ==
    { [MakeConfig(MaxTrigger, <<1, 2>>, r) EXCEPT !.retry_delay_ms = d] :
          r \in (0..MaxRetry) \cup {DefaultRetryAttempts},
          d \in {1, DefaultRetryDelayMs} }

\* Mutant: every order is Fill-And-Kill.
order_type_always_fak(side) == "FAK"

\* execute_trade, executor.rs 17-20.
order_type_for(side) == IF side = "BUY" THEN "FAK" ELSE "GTD"

\* Trade.price of the trades handed to execute_market_order: negative, zero
\* and positive.
MarketPrices == {0 - 1, 0, 1, 2}

\* The dollar amounts handed to execute_market_order, each a multiple of every
\* positive price above, so that the f64 quotient is the integer quotient.
UsdAmounts == {2, 2 * MaxSize}

MarketTrades ==
    [market_id : MarketIds, side : TradeSides, price : MarketPrices]

\* Mutant: the dollar amount is taken as the share count.
market_shares_undivided(usd_amount, price) == usd_amount

\* executor.rs 96-97: usd_amount / trade.price
market_shares(usd_amount, price) == usd_amount \div price

\* executor.rs 102-108
MarketOrderRequest(trade, usd_amount) ==
    [market_id |-> trade.market_id, side |-> trade.side,
     shares |-> market_shares(usd_amount, trade.price),
     price |-> None, order_type |-> "MARKET"]

\* execute_trade, executor.rs 22-28.
OrderRequest(trade, shares) ==
    [market_id |-> trade.market_id, side |-> trade.side, shares |-> shares,
     price |-> Some(trade.price), order_type |-> order_type_for(trade.side)]

\* Mutant: a partial fill is not taken as success.
is_filled_full_only(status) == status = "filled"

\* executor.rs 62
is_filled(status) == status = "filled" \/ status = "partially_filled"

\* Mutant: a rejected order is retried.
is_adjudicated_cancel_only(status) == status = "cancelled"

\* executor.rs 66
is_adjudicated(status) == status = "cancelled" \/ status = "rejected"

\* Mutant: the same delay after every failed attempt.
backoff_ms_flat(cfg, attempts) == cfg.retry_delay_ms

\* executor.rs 81-83: retry_delay_ms * (attempts as u64)
backoff_ms(cfg, attempts) == cfg.retry_delay_ms * attempts

\* Entries of exec.log.
PlaceEntry(order, r) == [op |-> "place_order", order |-> Some(order), result |-> Some(r), ms |-> 0]
SleepEntry(ms) == [op |-> "sleep", order |-> None, result |-> None, ms |-> ms]

\* What execute_market_order returns for a price that is not positive,
\* executor.rs 98-100.
InvalidPriceResult == [ok |-> FALSE, status |-> NoArg, cause |-> "Invalid price", after |-> 0]

\* What execute_with_retry returns.
OkResult(status) == [ok |-> TRUE, status |-> status, cause |-> NoArg, after |-> 0]
BailResult(status) == [ok |-> FALSE, status |-> status, cause |-> "exchange", after |-> 0]
ExhaustedResult(e, n) == [ok |-> FALSE, status |-> NoArg, cause |-> e, after |-> n]

\* executor.rs 16-30 and 54-55: the order is built once, the loop starts with
\* attempts = 0 and last_error = None.
ExecuteTrade ==
    /\ exec.pc = "idle"
    /\ \E trade \in ExecTrades, shares \in ExecShares :
          exec' = [ExecIdle EXCEPT !.pc = "retrying", !.trade = trade,
                                   !.method = "execute_trade",
                                   !.shares = shares,
                                   !.order = Some(OrderRequest(trade, shares))]
    /\ UNCHANGED <<riskVars, obsVars, frame, chanVars, main, ev, sizing, timer, ws>>

\* executor.rs 95-111: a price that is not positive ends the call before any
\* order is built; otherwise the MARKET order goes to execute_with_retry.
ExecuteMarketOrder ==
    /\ exec.pc = "idle"
    /\ \E trade \in MarketTrades, usd_amount \in UsdAmounts :
          LET x == [ExecIdle EXCEPT !.method = "execute_market_order",
                                    !.trade = trade,
                                    !.usd_amount = usd_amount]
          IN  exec' = IF trade.price > 0
                      THEN [x EXCEPT !.pc = "retrying",
                                     !.order = Some(MarketOrderRequest(trade, usd_amount))]
                      ELSE [x EXCEPT !.pc = "returned",
                                     !.result = Some(InvalidPriceResult)]
    /\ UNCHANGED <<riskVars, obsVars, frame, chanVars, main, ev, sizing, timer, ws>>

\* executor.rs 57-87: one turn of the loop for the place_order result r.
retry_turn(x, cfg, r) ==
    LET attempts == x.attempts + 1
        placed == Append(x.log, PlaceEntry(x.order[1], r))
        y == [x EXCEPT !.attempts = attempts, !.log = placed]
    IN  IF r.ok
        THEN IF is_filled(r.status)
             THEN [y EXCEPT !.pc = "returned", !.result = Some(OkResult(r.status))]
             ELSE IF is_adjudicated(r.status)
             THEN [y EXCEPT !.pc = "returned", !.result = Some(BailResult(r.status))]
             ELSE y
        ELSE IF attempts < cfg.retry_attempts
             THEN [y EXCEPT !.last_error = Some(r.error),
                            !.log = Append(placed, SleepEntry(backoff_ms(cfg, attempts)))]
             ELSE [y EXCEPT !.last_error = Some(r.error)]

ExecuteWithRetryTurn ==
    /\ exec.pc = "retrying"
    /\ exec.attempts < config.retry_attempts
    /\ \E r \in PlaceResults : exec' = retry_turn(exec, config, r)
    /\ UNCHANGED <<riskVars, obsVars, frame, chanVars, main, ev, sizing, timer, ws>>

\* executor.rs 89-92: Err(last_error.unwrap().context(..)); unwrap panics on
\* None.
ExecuteWithRetryExhausted ==
    /\ exec.pc = "retrying"
    /\ exec.attempts >= config.retry_attempts
    /\ exec' = IF exec.last_error = None
               THEN [exec EXCEPT !.pc = "panicked"]
               ELSE [exec EXCEPT !.pc = "returned",
                                 !.result = Some(ExhaustedResult(exec.last_error[1],
                                                                 config.retry_attempts))]
    /\ UNCHANGED <<riskVars, obsVars, frame, chanVars, main, ev, sizing, timer, ws>>

InitExecutor ==
    /\ config \in ExecConfigs
    /\ state = NewState
    /\ event_exposure = NewExposure
    /\ InitObs
    /\ InitConcVars
    /\ InitPipeVars

NextExecutor ==
    \/ ExecuteTrade
    \/ ExecuteMarketOrder
    \/ ExecuteWithRetryTurn
    \/ ExecuteWithRetryExhausted

SpecExecutor == InitExecutor /\ [][NextExecutor]_vars

\* --------------------------------------------------------- PositionSizer
\* Dollar amounts, share counts, prices and ratios are f64 in the source; here
\* they are exact fractions <<numerator, denominator>> in lowest terms with a
\* positive denominator, so that 0.5, 0.95 and 0.02 are what they say.
Abs(n) == IF n < 0 THEN 0 - n ELSE n

RECURSIVE Gcd(_, _)
Gcd(a, b) == IF b = 0 THEN a ELSE Gcd(b, a % b)

Frac(n, d) == LET g == Gcd(Abs(n), d) IN <<n \div g, d \div g>>

Whole(n) == <<n, 1>>

RMul(a, b) == Frac(a[1] * b[1], a[2] * b[2])

\* a / b for b > 0
RDiv(a, b) == Frac(a[1] * b[2], a[2] * b[1])

RLess(a, b) == a[1] * b[2] < b[1] * a[2]

\* f64::max and f64::min on numbers
RMax(a, b) == IF RLess(a, b) THEN b ELSE a

RMin(a, b) == IF RLess(b, a) THEN b ELSE a

\* types.rs 130-135
SizingModes == {"Fixed", "Proportional", "TierBased"}

\* fixed_stake, min_stake, max_stake: the values of the tests and the
\* defaults, a fixed stake above max_stake, and one with all three equal.
SizerStakes ==
    { [fixed_stake |-> Whole(25), min_stake |-> Whole(5), max_stake |-> Whole(100)],
      [fixed_stake |-> Whole(150), min_stake |-> Whole(5), max_stake |-> Whole(100)],
      [fixed_stake |-> Whole(5), min_stake |-> Whole(5), max_stake |-> Whole(5)] }

\* proportional_ratio: the default 0.02, and 1.
ProportionalRatios == {Frac(1, 50), Whole(1)}

\* The fields of Config that PositionSizer reads.
SizerConfigs ==
    { [sizing_mode |-> m, fixed_stake |-> k.fixed_stake,
       proportional_ratio |-> pr, min_stake |-> k.min_stake,
       max_stake |-> k.max_stake] :
          m \in SizingModes, k \in SizerStakes, pr \in ProportionalRatios }

\* Trade.shares and Trade.price of the source trade: one trade in each tier,
\* and the empty trade.
SizerTrades ==
    [shares : {Whole(0), Whole(1), Whole(100), Whole(400), Whole(600)},
     price : {Frac(1, 2), Whole(1)}]

\* your_balance
OwnBalances == {Whole(0), Whole(4), Whole(100), Whole(1000)}

\* whale_balance: below 1, 1, above 1, and the default of main.rs 106.
SourceBalances ==
    {Whole(0), Frac(1, 2), Whole(1), Whole(10000), Whole(WhaleBalanceDefault)}

\* Mutant: the source balance is floored at one cent.
whale_floor_cent(whale_balance) == RMax(whale_balance, Frac(1, 100))

\* sizing.rs 18: whale_balance.max(1.0)
whale_floor(whale_balance) == RMax(whale_balance, Whole(1))

\* sizing.rs 17-20
proportional_size(cfg, trade, your_balance, whale_balance) ==
    LET ratio == RDiv(your_balance, whale_floor(whale_balance))
    IN  RMul(RMul(trade.shares, trade.price), ratio)

\* Mutant: the fixed stake is staked per share of the source trade.
fixed_size_per_share(cfg, trade, your_balance, whale_balance) ==
    RMul(trade.shares, cfg.fixed_stake)

\* sizing.rs 15
fixed_size(cfg, trade, your_balance, whale_balance) == cfg.fixed_stake

\* sizing.rs 46-58
get_tier_multiplier(trade_size_usd) ==
    IF RLess(trade_size_usd, Whole(50)) THEN Frac(1, 2)
    ELSE IF RLess(trade_size_usd, Whole(200)) THEN Whole(1)
    ELSE IF RLess(trade_size_usd, Whole(500)) THEN Frac(3, 2)
    ELSE Whole(2)

\* sizing.rs 22-26
tier_size(cfg, trade, your_balance, whale_balance) ==
    LET trade_size == RMul(trade.shares, trade.price)
        multiplier == get_tier_multiplier(trade_size)
    IN  RMul(RMul(trade.shares, multiplier), cfg.proportional_ratio)

\* Mutant: the size is not held to the balance.
apply_limits_no_buffer(cfg, size, your_balance) ==
    RMin(RMax(size, cfg.min_stake), cfg.max_stake)

\* sizing.rs 29-34: max(min_stake), then min(max_stake), then
\* min(your_balance * 0.95).
apply_limits(cfg, size, your_balance) ==
    LET raised == RMax(size, cfg.min_stake)
        capped == RMin(raised, cfg.max_stake)
    IN  RMin(capped, RMul(your_balance, Frac(95, 100)))

\* sizing.rs 13-44
calculate_size(cfg, trade, your_balance, whale_balance) ==
    LET size == CASE cfg.sizing_mode = "Fixed" ->
                         fixed_size(cfg, trade, your_balance, whale_balance)
                  [] cfg.sizing_mode = "Proportional" ->
                         proportional_size(cfg, trade, your_balance, whale_balance)
                  [] cfg.sizing_mode = "TierBased" ->
                         tier_size(cfg, trade, your_balance, whale_balance)
    IN  apply_limits(cfg, size, your_balance)

\* sizing.rs 9-11
NewSizer(cfg) ==
    [config |-> cfg, trade |-> None, your_balance |-> None,
     whale_balance |-> None, result |-> None]

\* One call of calculate_size: its arguments and the Ok value it returned.
CalculateSize ==
    /\ sizing # None
    /\ \E trade \in SizerTrades, your_balance \in OwnBalances,
          whale_balance \in SourceBalances :
          sizing' = [sizing EXCEPT
                        !.trade = Some(trade),
                        !.your_balance = Some(your_balance),
                        !.whale_balance = Some(whale_balance),
                        !.result = Some(calculate_size(sizing.config, trade,
                                                       your_balance, whale_balance))]
    /\ UNCHANGED <<riskVars, obsVars, frame, chanVars, main, ev, exec, timer, ws>>

InitSizing ==
    /\ config = MakeConfig(MaxTrigger, <<1, 2>>, DefaultRetryAttempts)
    /\ state = NewState
    /\ event_exposure = NewExposure
    /\ InitObs
    /\ InitConcVars
    /\ queue = <<>>
    /\ sentLog = <<>>
    /\ main = MainIdle
    /\ ev = NewEv(NoTrade, NewState)
    /\ exec = ExecIdle
    /\ sizing \in {NewSizer(cfg) : cfg \in SizerConfigs}
    /\ timer = None
    /\ ws = None

NextSizing == CalculateSize

SpecSizing == InitSizing /\ [][NextSizing]_vars

\* --------------------------------------------------------- WalletWatcher
\* One task per tracked wallet runs watch_wallet; ws[w] is its position:
\*   connect    about to call connect_async            (watcher.rs 52)
\*   subscribe  connected, about to send the subscribe message (66-71)
\*   read       in the read loop, at read.next()      (89)
\*   send       a trade decoded, in tx.send(trade)    (94)
\*   sleep      in the 5 s sleep of watch_wallet      (45)
\* att flips at every connect attempt; last is how the last connection
\* ended, "none" while one is up.
ConnectionEnds == {"connect_failed", "subscribe_failed", "transport_error", "closed"}

NewWatcher == [pc |-> "connect", att |-> FALSE, last |-> "none", trade |-> None]

\* Mutant: watch_wallet returns the error of connect_and_watch.
watch_wallet_propagating(how) ==
    IF how \in {"connect_failed", "subscribe_failed"} THEN "terminated" ELSE "connect"

\* watcher.rs 40-48: after Err the task logs and sleeps 5 s, after Ok it logs;
\* either way the loop calls connect_and_watch again.
watch_wallet(how) ==
    IF how \in {"connect_failed", "subscribe_failed"} THEN "sleep" ELSE "connect"

WsUnchanged == UNCHANGED <<riskVars, obsVars, frame, chanVars, main, ev, exec, sizing, timer>>

\* watcher.rs 52-54: connect_async succeeds, or fails and the ? returns Err.
WsConnect(w) ==
    /\ ws # None
    /\ ws[w].pc = "connect"
    /\ \/ ws' = [ws EXCEPT ![w] = [@ EXCEPT !.pc = "subscribe", !.att = ~@,
                                              !.last = "none"]]
       \/ ws' = [ws EXCEPT ![w] = [@ EXCEPT !.pc = watch_wallet("connect_failed"),
                                              !.att = ~@,
                                              !.last = "connect_failed"]]
    /\ WsUnchanged

\* watcher.rs 66-71: the subscribe message is sent, or the send fails and the
\* ? returns Err.
WsSubscribe(w) ==
    /\ ws # None
    /\ ws[w].pc = "subscribe"
    /\ \/ ws' = [ws EXCEPT ![w] = [@ EXCEPT !.pc = "read"]]
       \/ ws' = [ws EXCEPT ![w] = [@ EXCEPT !.pc = watch_wallet("subscribe_failed"),
                                              !.last = "subscribe_failed"]]
    /\ WsUnchanged

\* watcher.rs 89-93: a text message that parse_trade_event turns into a trade
\* of this watcher's wallet.
WsTrade(w) ==
    /\ ws # None
    /\ ws[w].pc = "read"
    /\ \E g \in Groups :
          ws' = [ws EXCEPT ![w] = [@ EXCEPT !.pc = "send",
                    !.trade = Some([wallet |-> w, event_id |-> g])]]
    /\ WsUnchanged

\* watcher.rs 104-111 and 89: a Close message, a transport error or the end
\* of the stream leaves the read loop and connect_and_watch returns Ok.
WsDisconnect(w) ==
    /\ ws # None
    /\ ws[w].pc = "read"
    /\ \E how \in {"transport_error", "closed"} :
          ws' = [ws EXCEPT ![w] = [@ EXCEPT !.pc = watch_wallet(how), !.last = how]]
    /\ WsUnchanged

\* watcher.rs 94: tx.send(trade).await returns once the channel has room.
WsSend(w) ==
    /\ ws # None
    /\ ws[w].pc = "send"
    /\ Len(queue) < QueueCap
    /\ queue' = Append(queue, ws[w].trade[1])
    /\ sentLog' = Append(sentLog, ws[w].trade[1])
    /\ ws' = [ws EXCEPT ![w] = [@ EXCEPT !.pc = "read", !.trade = None]]
    /\ UNCHANGED <<riskVars, obsVars, frame, main, ev, exec, sizing, timer>>

\* watcher.rs 45: the 5 s sleep is over.
WsWake(w) ==
    /\ ws # None
    /\ ws[w].pc = "sleep"
    /\ ws' = [ws EXCEPT ![w] = [@ EXCEPT !.pc = "connect"]]
    /\ WsUnchanged

\* main.rs 73-161 in one step: the trade received goes through the pipeline
\* and main is back at recv. What the pipeline does to the RiskManager is in
\* SpecPipeline; here main is the channel's consumer.
MainIteration ==
    /\ ws # None
    /\ main.pc = "verify"
    /\ main' = MainIdle
    /\ UNCHANGED <<riskVars, obsVars, frame, chanVars, ev, libVars>>

InitWatchers ==
    /\ config = MakeConfig(MaxTrigger, <<1, 2>>, DefaultRetryAttempts)
    /\ state = NewState
    /\ event_exposure = NewExposure
    /\ InitObs
    /\ InitConcVars
    /\ queue = <<>>
    /\ sentLog = <<>>
    /\ main = MainIdle
    /\ ev = NewEv(NoTrade, NewState)
    /\ exec = ExecIdle
    /\ sizing = None
    /\ timer = None
    /\ ws = [w \in TrackedWallets |-> NewWatcher]

NextWatchers ==
    \/ \E w \in TrackedWallets : WsConnect(w)
    \/ \E w \in TrackedWallets : WsSubscribe(w)
    \/ \E w \in TrackedWallets : WsTrade(w)
    \/ \E w \in TrackedWallets : WsDisconnect(w)
    \/ \E w \in TrackedWallets : WsSend(w)
    \/ \E w \in TrackedWallets : WsWake(w)
    \/ Recv
    \/ MainIteration

SpecWatchers == InitWatchers /\ [][NextWatchers]_vars

\* A task that is ready runs (tokio schedules every ready task), a sleep
\* ends and connect_async returns.
FairSpecWatchers ==
    /\ SpecWatchers
    /\ \A w \in TrackedWallets : WF_vars(WsWake(w)) /\ WF_vars(WsConnect(w))

\* ------------------------------------------------------ daily-reset task
\* Time is in minutes of the UTC wall clock, counted from 00:00 of the day the
\* process starts in; the interval's deadlines are on the same clock.
MinutesPerHour == 60

DayMinutes == 24 * MinutesPerHour

\* main.rs 49: interval(Duration::from_secs(3600)), in minutes.
IntervalMinutes == 60

\* The minute of the day the task is spawned at.
StartMinutes == {0, 30, MinutesPerHour, 12 * MinutesPerHour, DayMinutes - 1}

\* How long after its deadline the task gets to run: at once, or one whole
\* period later (the process stopped or the runtime kept busy).
Lateness == {0, IntervalMinutes}

\* The ticks observed: those with a deadline up to the first hour after day
\* MaxDays.
Horizon == DayMinutes * (MaxDays + 1) + IntervalMinutes

Days == 0..(MaxDays + 1)

DayOf(t) == t \div DayMinutes

Hour(t) == (t % DayMinutes) \div MinutesPerHour

Minute(t) == t % MinutesPerHour

\* Mutant: the reset is made by the first tick of each day, whatever its
\* minute.
in_reset_window_first_tick(now) == Hour(now) = 0 /\ Minute(now) < IntervalMinutes

\* main.rs 53: now.hour() == 0 && now.minute() < 1
in_reset_window(now) == Hour(now) = 0 /\ Minute(now) < 1

\* main.rs 49: the interval's first tick completes at once.
NewTimer(start) ==
    [start |-> start, now |-> start, next |-> start,
     resets |-> [d \in Days |-> 0], late |-> FALSE, wiped |-> FALSE]

\* main.rs 50-56: one turn of the task's loop. interval.tick() returns at the
\* deadline or, if the task runs late, when it next runs; the deadlines stay
\* at start + k * period (MissedTickBehavior::Burst, tokio's default), so the
\* ticks missed are delivered back to back. A tick in the window calls
\* reset_daily_stats.
TimerTick ==
    /\ timer # None
    /\ timer.next <= Horizon
    /\ \E lateness \in Lateness :
          LET now == IF timer.now > timer.next + lateness
                     THEN timer.now ELSE timer.next + lateness
              reset == in_reset_window(now)
              day == DayOf(now)
          IN  /\ timer' = [timer EXCEPT
                     !.now = now,
                     !.next = @ + IntervalMinutes,
                     !.late = @ \/ lateness > 0,
                     !.resets = IF reset THEN [@ EXCEPT ![day] = @ + 1] ELSE @,
                     !.wiped = @ \/ ( /\ reset
                                      /\ timer.resets[day] > 0
                                      /\ state.total_trades_today > 0 )]
              /\ state' = IF reset THEN reset_daily_stats_state(state) ELSE state
              /\ event_exposure' = IF reset
                                   THEN reset_daily_stats_exposure(event_exposure)
                                   ELSE event_exposure
    /\ UNCHANGED <<config, stateLock, obsVars, frame, chanVars, main, ev, exec,
                   sizing, ws>>

\* main.rs 139: a trade recorded by the trading loop while the task runs.
TimerTrade ==
    /\ timer # None
    /\ state.total_trades_today < MaxTrades
    /\ \E event_id \in Groups :
          /\ state' = record_trade_state(state, 1)
          /\ event_exposure' = record_trade_exposure(event_exposure, event_id, 1)
    /\ UNCHANGED <<config, stateLock, obsVars, frame, chanVars, main, ev, exec,
                   sizing, timer, ws>>

InitTimer ==
    /\ config = MakeConfig(MaxTrigger, <<1, 2>>, DefaultRetryAttempts)
    /\ state = NewState
    /\ event_exposure = NewExposure
    /\ InitObs
    /\ InitConcVars
    /\ queue = <<>>
    /\ sentLog = <<>>
    /\ main = MainIdle
    /\ ev = NewEv(NoTrade, NewState)
    /\ exec = ExecIdle
    /\ sizing = None
    /\ timer \in {NewTimer(start) : start \in StartMinutes}
    /\ ws = None

NextTimer ==
    \/ TimerTick
    \/ TimerTrade

SpecTimer == InitTimer /\ [][NextTimer]_vars

\* ------------------------------------------------------------------ claims
RECURSIVE SumExposure(_, _)
SumExposure(exposure, gs) ==
    IF gs = {} THEN 0
    ELSE LET g == CHOOSE x \in gs : TRUE IN
         current_exposure(exposure, g) + SumExposure(exposure, gs \ {g})

\* C1: on a fresh RiskManager driven by record_error and record_trade (no
\* breaker reset), the breaker is tripped exactly when some record_error call
\* brought the run of errors since the last record_trade to
\* cb_consecutive_trigger; it turns tripped on that very call and not before,
\* and consecutive_errors is that run (0 after any record_trade).
C1_TripsExactlyAtTrigger ==
    ~cbResetCalled =>
        /\ state.consecutive_errors = errRun
        /\ state.is_tripped <=> runReachedTrigger
        /\ (state.is_tripped /\ ~lastOp.pre_state.is_tripped) =>
              /\ lastOp.op = "record_error"
              /\ errRun = config.cb_consecutive_trigger
        /\ lastOp.op = "record_trade" => state.consecutive_errors = 0

C1_Witness ==
    /\ ~cbResetCalled
    /\ lastOp.op = "record_error"
    /\ ~lastOp.pre_state.is_tripped
    /\ state.is_tripped
    /\ state.total_trades_today > 0
    /\ config.cb_consecutive_trigger = 2

\* C2: the breaker is a one-way latch: a call other than
\* reset_circuit_breaker made while is_tripped leaves it tripped, and
\* reset_circuit_breaker sets is_tripped false, consecutive_errors 0 and
\* trip_reason None.
C2_OneWayLatch ==
    /\ (lastOp.pre_state.is_tripped /\ lastOp.op # "reset_circuit_breaker")
          => state.is_tripped
    /\ lastOp.op = "reset_circuit_breaker" =>
          /\ ~state.is_tripped
          /\ state.consecutive_errors = 0
          /\ state.trip_reason = None

C2_Witness ==
    /\ lastOp.op = "record_trade"
    /\ lastOp.pre_state.is_tripped
    /\ state.is_tripped

\* C3: an event main dequeues while the breaker is tripped never has an order
\* submitted (no place_order call) and never has record_trade called for it,
\* whatever the daily-reset task does meanwhile.
C3_TrippedHaltsTrading ==
    ev.trippedAtRecv =>
        /\ ev.orders = 0
        /\ ~ev.traded
        /\ main.pc \notin {"execute", "record", "status"}

C3_Witness ==
    /\ ev.trippedAtRecv
    /\ main.pc = "risk"
    /\ frame["main"].pc = "done"
    /\ frame["main"].result = "Circuit breaker tripped"
    /\ frame["timer"].pc = "done"
    /\ state.total_trades_today = 0
    /\ state.consecutive_errors > config.cb_consecutive_trigger

\* C4: check_can_trade reports the first failing check in the order breaker,
\* daily volume, event exposure, liquidity, depth; with the breaker tripped it
\* reports the breaker whatever else would fail.
C4_FirstFailingCheckWins ==
    lastOp.op = "check_can_trade" =>
        LET tripped == state.is_tripped
            vol == state.total_volume_today + lastOp.size_usd
                      > config.max_daily_volume
            exp == current_exposure(event_exposure, lastOp.event_id)
                      + lastOp.size_usd > config.max_exposure_per_event
            liq == lastOp.liquidity < config.min_liquidity
            dep == lastOp.liquidity < config.cb_min_depth_usd
        IN  /\ tripped => lastOp.result = "Circuit breaker tripped"
            /\ (~tripped /\ vol) => lastOp.result = "Daily volume limit exceeded"
            /\ (~tripped /\ ~vol /\ exp)
                  => lastOp.result = "Event exposure limit exceeded"
            /\ (~tripped /\ ~vol /\ ~exp /\ liq)
                  => lastOp.result = "Insufficient liquidity"
            /\ (~tripped /\ ~vol /\ ~exp /\ ~liq /\ dep)
                  => lastOp.result = "Orderbook depth too low"

C4_Witness ==
    /\ lastOp.op = "check_can_trade"
    /\ state.is_tripped
    /\ state.total_volume_today + lastOp.size_usd > config.max_daily_volume
    /\ lastOp.liquidity < config.min_liquidity
    /\ lastOp.result = "Circuit breaker tripped"

\* C5: check_can_trade returns Ok exactly when the breaker is not tripped,
\* volume_today + size <= max_daily_volume, exposure[group] + size <=
\* max_exposure_per_event, liquidity >= min_liquidity and liquidity >=
\* cb_min_depth_usd (a sum equal to the limit is accepted).
C5_OkExactlyWithinLimits ==
    lastOp.op = "check_can_trade" =>
        (lastOp.result = "Ok" <=>
            /\ ~state.is_tripped
            /\ state.total_volume_today + lastOp.size_usd
                  <= config.max_daily_volume
            /\ current_exposure(event_exposure, lastOp.event_id)
                  + lastOp.size_usd <= config.max_exposure_per_event
            /\ lastOp.liquidity >= config.min_liquidity
            /\ lastOp.liquidity >= config.cb_min_depth_usd)

C5_Witness ==
    /\ lastOp.op = "check_can_trade"
    /\ lastOp.result = "Ok"
    /\ lastOp.size_usd > 0
    /\ state.total_volume_today + lastOp.size_usd = config.max_daily_volume

\* C6: reset_daily_stats zeroes trades_today and volume_today, empties the
\* exposure map, and leaves is_tripped, trip_reason and consecutive_errors
\* as they were.
C6_DailyResetFrame ==
    lastOp.op = "reset_daily_stats" =>
        /\ state.total_trades_today = 0
        /\ state.total_volume_today = 0
        /\ \A g \in Groups : event_exposure[g] = None
        /\ state.is_tripped = lastOp.pre_state.is_tripped
        /\ state.trip_reason = lastOp.pre_state.trip_reason
        /\ state.consecutive_errors = lastOp.pre_state.consecutive_errors

C6_Witness ==
    /\ lastOp.op = "reset_daily_stats"
    /\ lastOp.pre_state.total_trades_today > 0
    /\ lastOp.pre_state.total_volume_today > 0
    /\ \E g \in Groups : lastOp.pre_exposure[g] # None
    /\ state.is_tripped
    /\ state.consecutive_errors > 0

\* C7: reset_daily_stats is idempotent: a second call right after a first
\* leaves the whole RiskManager state as the first call left it.
C7_DailyResetIdempotent ==
    resetsInRow >= 2 =>
        /\ state = lastOp.pre_state
        /\ event_exposure = lastOp.pre_exposure

C7_Witness ==
    /\ resetsInRow = 2
    /\ lastOp.op = "reset_daily_stats"
    /\ state.consecutive_errors > 0
    /\ ~state.is_tripped

\* C8: for every group the exposure entry (0 when absent) is the sum of the
\* sizes given to record_trade for it since the last reset_daily_stats, and
\* volume_today is the sum of the entries over all groups.
C8_ExposureInvariant ==
    /\ \A g \in Groups : current_exposure(event_exposure, g) = recorded[g]
    /\ state.total_volume_today = SumExposure(event_exposure, Groups)

C8_Witness ==
    /\ lastOp.op = "record_trade"
    /\ lastOp.size_usd > 0
    /\ current_exposure(lastOp.pre_exposure, lastOp.event_id) > 0
    /\ recorded[lastOp.event_id] > lastOp.size_usd
    /\ state.total_volume_today = recorded[lastOp.event_id]

\* C9: record_trade(event, size) adds 1 to trades_today, size to
\* volume_today, sets consecutive_errors to 0, adds size to the event's own
\* exposure entry, and changes no other entry, is_tripped or trip_reason.
C9_RecordTradeFrame ==
    lastOp.op = "record_trade" =>
        /\ state.total_trades_today = lastOp.pre_state.total_trades_today + 1
        /\ state.total_volume_today =
              lastOp.pre_state.total_volume_today + lastOp.size_usd
        /\ state.consecutive_errors = 0
        /\ event_exposure[lastOp.event_id] =
              Some(current_exposure(lastOp.pre_exposure, lastOp.event_id)
                     + lastOp.size_usd)
        /\ \A g \in Groups \ {lastOp.event_id} :
              event_exposure[g] = lastOp.pre_exposure[g]
        /\ state.is_tripped = lastOp.pre_state.is_tripped
        /\ state.trip_reason = lastOp.pre_state.trip_reason

C9_Witness ==
    /\ lastOp.op = "record_trade"
    /\ lastOp.size_usd > 0
    /\ lastOp.pre_state.consecutive_errors > 0
    /\ lastOp.pre_state.is_tripped
    /\ \E g \in Groups \ {lastOp.event_id} : lastOp.pre_exposure[g] # None

\* C10: check_can_trade, record_trade and record_error are atomic relative to
\* each other: no record_trade, record_error or reset_daily_stats of another
\* caller takes effect between the breaker check, the volume check and the
\* exposure check of one check_can_trade call.
C10_CheckCanTradeAtomic ==
    \A t \in Threads : ~frame[t].interleaved

C12_RejectionIsNoError ==
    /\ (main.pc = "risk" /\ MainReturned /\ frame["main"].result # "Ok") =>
          /\ ev.errors = 0
          /\ ~ev.traded
          /\ ev.orders = 0
          /\ ev.writes = 0
    /\ (ev.checkResult # None /\ ev.checkResult # Some("Ok")) =>
          /\ main = MainIdle
          /\ frame["main"] = IdleFrame
          /\ ev.errors = 0
          /\ ~ev.traded
          /\ ev.recordedSize = None
          /\ ev.orders = 0
          /\ ev.writes = 0

C12_Witness ==
    /\ ev.checkResult = Some("Insufficient liquidity")
    /\ main = MainIdle
    /\ state.consecutive_errors = config.cb_consecutive_trigger - 1
    /\ ~state.is_tripped
    /\ state.total_trades_today > 0

\* C13: an event whose market fetch, own-balance fetch or execute_trade
\* failed has exactly one record_error call (one write to the RiskManager once
\* the call is through), no order after the failure, none at all when a fetch
\* failed, no record_trade, and main goes on with its loop. (calculate_size
\* returns Ok on every path, so no event fails at sizing.)
C13_FailureRecordsOneError ==
    ev.failure # "none" =>
        /\ Running
        /\ main.pc \in {"error_continue", "record", "status", "recv"}
        /\ ev.errors = 1
        /\ ev.writes <= 1
        /\ main.pc \in {"status", "recv"} => ev.writes = 1
        /\ ~ev.traded
        /\ ev.recordedSize = None
        /\ ev.orders = ev.ordersAtFailure
        /\ ev.failure \in {"market", "balance"} =>
              (ev.orders = 0 /\ ev.checked = None)

\* C14: when the fetch of the whale's balance fails, main goes on with the
\* balance 1000000 and without a record_error call: the event is sized,
\* checked and executed like one whose fetch succeeded.
C14_WhaleBalanceDefault ==
    /\ ev.whaleFetchFailed =>
          /\ ev.fetches = 3
          /\ ev.failure \in {"none", "execute"}
          /\ main.pc \in {"size", "risk", "execute"} =>
                (main.whale_balance = WhaleBalanceDefault /\ ev.errors = 0)
    /\ (~ev.whaleFetchFailed /\ main.pc \in {"size", "risk", "execute"}) =>
          main.whale_balance \in WhaleBalances

C14_Witness ==
    /\ ev.whaleFetchFailed
    /\ main.pc = "status"
    /\ main.whale_balance = WhaleBalanceDefault
    /\ ev.traded
    /\ ev.errors = 0
    /\ ev.writes = 2

\* C15: an event that passed check_can_trade ends with exactly one report:
\* record_trade for the event with the size that was checked, or
\* record_error, never both and never neither; record_trade is called only
\* for an event whose check passed and whose order was filled.
C15_ExactlyOneReport ==
    /\ ev.traded =>
          /\ ev.checkResult = Some("Ok")
          /\ ev.orders >= 1
          /\ ev.recordedSize = ev.checked
          /\ ev.errors = 0
    /\ (frame["main"].method = "record_trade" /\ frame["main"].pc # "done") =>
          /\ frame["main"].event_id = ev.trade.event_id
          /\ Some(frame["main"].size_usd) = ev.checked
    /\ ev.errors <= 1
    /\ (ev.checkResult = Some("Ok") /\ main.pc # "execute") =>
          /\ Running
          /\ ev.traded \/ ev.errors = 1

\* The place_order calls of the TradeExecutor call, as positions in its log,
\* and the attempt number of each.
PlaceIdx == {i \in 1..Len(exec.log) : exec.log[i].op = "place_order"}

AttemptNo(i) == Cardinality({j \in PlaceIdx : j <= i})

PlaceResult(i) == exec.log[i].result[1]

Transient(r) ==
    ~r.ok \/ r.status \notin {"filled", "partially_filled", "cancelled", "rejected"}

\* C16: while every place_order of a call has returned an error, the call's
\* log is place_order, sleep(retry_delay_ms * 1), place_order,
\* sleep(retry_delay_ms * 2), ...: a sleep of retry_delay_ms * k after failed
\* attempt k < retry_attempts and none after attempt retry_attempts; the call
\* returns only after retry_attempts attempts, and returns Err made from the
\* error of the last attempt with the attempt count.
C16_AllErrorsBackoff ==
    (exec.attempts >= 1 /\ \A i \in PlaceIdx : ~PlaceResult(i).ok) =>
        LET n == config.retry_attempts
            d == config.retry_delay_ms
            k == exec.attempts
        IN  /\ k <= n
            /\ Cardinality(PlaceIdx) = k
            /\ Len(exec.log) = IF k < n THEN 2 * k ELSE 2 * n - 1
            /\ \A j \in 1..Len(exec.log) :
                  IF j % 2 = 1
                  THEN exec.log[j].op = "place_order"
                  ELSE exec.log[j].op = "sleep" /\ exec.log[j].ms = d * (j \div 2)
            /\ exec.pc \in {"retrying", "returned"}
            /\ exec.pc = "returned" =>
                  /\ k = n
                  /\ ~exec.result[1].ok
                  /\ exec.result[1].cause = PlaceResult(Len(exec.log)).error
                  /\ exec.result[1].after = n

C16_Witness ==
    /\ config.retry_attempts = 4
    /\ config.retry_delay_ms = 500
    /\ exec.pc = "returned"
    /\ \A i \in PlaceIdx : ~PlaceResult(i).ok
    /\ Len(exec.log) = 7
    /\ exec.log[2].ms = 500
    /\ exec.log[4].ms = 1000
    /\ exec.log[6].ms = 1500
    /\ PlaceResult(5).error = "timeout"
    /\ PlaceResult(7).error = "bad_gateway"
    /\ exec.result[1].cause = "bad_gateway"

\* C17: a place_order answered cancelled or rejected is the last entry of the
\* call's log (no later place_order, no sleep), and the call has returned Err
\* for that status.
C17_TerminalShortCircuit ==
    \A i \in PlaceIdx :
        (PlaceResult(i).ok /\ PlaceResult(i).status \in {"cancelled", "rejected"}) =>
            /\ i = Len(exec.log)
            /\ exec.attempts = AttemptNo(i)
            /\ exec.pc = "returned"
            /\ ~exec.result[1].ok
            /\ exec.result[1].status = PlaceResult(i).status

C17_Witness ==
    /\ config.retry_attempts = 4
    /\ exec.pc = "returned"
    /\ exec.attempts = 2
    /\ Len(exec.log) = 3
    /\ ~PlaceResult(1).ok
    /\ PlaceResult(3).status = "rejected"

\* C18: a place_order answered filled or partially_filled is the last entry
\* of the call's log and the call has returned Ok with that response; a call
\* has at most one such place_order, and every place_order that is followed
\* by another one returned an error or a status outside the four tested.
C18_FilledIsSuccess ==
    /\ \A i \in PlaceIdx :
          (PlaceResult(i).ok /\ PlaceResult(i).status \in {"filled", "partially_filled"}) =>
              /\ i = Len(exec.log)
              /\ exec.attempts = AttemptNo(i)
              /\ exec.pc = "returned"
              /\ exec.result[1].ok
              /\ exec.result[1].status = PlaceResult(i).status
    /\ Cardinality({i \in PlaceIdx :
                       PlaceResult(i).ok
                       /\ PlaceResult(i).status \in {"filled", "partially_filled"}}) <= 1
    /\ \A i, j \in PlaceIdx : i < j => Transient(PlaceResult(i))

C18_Witness ==
    /\ exec.pc = "returned"
    /\ exec.attempts = 3
    /\ PlaceResult(1).ok
    /\ PlaceResult(1).status = "pending"
    /\ ~PlaceResult(2).ok
    /\ PlaceResult(Len(exec.log)).status = "partially_filled"
    /\ exec.result[1].ok

\* C19: after a place_order that returned an error or a status outside the
\* four tested, the call sleeps retry_delay_ms * attempt number before it
\* places the next order; and a call whose attempts are used up returns Err
\* made from the last error with the attempt count.
C19_TransientBackoff ==
    /\ \A i \in PlaceIdx :
          (Transient(PlaceResult(i)) /\ i < Len(exec.log)) =>
              exec.log[i + 1] = SleepEntry(config.retry_delay_ms * AttemptNo(i))
    /\ (exec.pc \in {"returned", "panicked"} /\ exec.attempts >= 1
          /\ Transient(PlaceResult(Len(exec.log)))) =>
              /\ exec.pc = "returned"
              /\ ~exec.result[1].ok
              /\ exec.result[1].cause \in ApiErrors
              /\ exec.result[1].after = config.retry_attempts

\* C20: every order execute_trade places carries the trade's market id and
\* side and the share count it was given, and is FAK for a BUY trade and GTD
\* for a SELL trade, on each attempt.
C20_OrderTypeBySide ==
    exec.method = "execute_trade" =>
    \A i \in PlaceIdx :
        LET order == exec.log[i].order[1] IN
        /\ order.market_id = exec.trade.market_id
        /\ order.side = exec.trade.side
        /\ order.shares = exec.shares
        /\ order.price = Some(exec.trade.price)
        /\ exec.trade.side = "BUY" => order.order_type = "FAK"
        /\ exec.trade.side = "SELL" => order.order_type = "GTD"

C20_Witness ==
    /\ exec.pc = "returned"
    /\ exec.method = "execute_trade"
    /\ Cardinality(PlaceIdx) = 3
    /\ exec.trade.side = "SELL"
    /\ exec.trade.market_id = "market2"
    /\ exec.shares = MaxSize
    /\ \A i \in PlaceIdx : exec.log[i].order[1].order_type = "GTD"

\* C21: execute_market_order with a price that is not positive returns an
\* error having placed no order; with a positive price every order it places
\* is a MARKET order without a price for usd_amount / price shares of the
\* trade's market and side, placed by the retry loop of execute_trade: a
\* filled status ends it in success, a cancelled or rejected one in failure,
\* and it never places more than retry_attempts orders.
C21_MarketOrder ==
    exec.method = "execute_market_order" =>
        IF exec.trade.price <= 0
        THEN /\ exec.pc = "returned"
             /\ exec.log = <<>>
             /\ exec.order = None
             /\ ~exec.result[1].ok
             /\ exec.result[1].cause = "Invalid price"
        ELSE /\ Cardinality(PlaceIdx) <= config.retry_attempts
             /\ Cardinality(PlaceIdx) = exec.attempts
             /\ \A i \in PlaceIdx :
                    LET order == exec.log[i].order[1] IN
                    /\ order.market_id = exec.trade.market_id
                    /\ order.side = exec.trade.side
                    /\ order.shares * exec.trade.price = exec.usd_amount
                    /\ order.price = None
                    /\ order.order_type = "MARKET"
             /\ exec.pc = "returned" =>
                    \/ /\ exec.result[1].ok
                       /\ exec.log[Len(exec.log)].result[1].status
                              \in {"filled", "partially_filled"}
                    \/ /\ ~exec.result[1].ok
                       /\ exec.result[1].cause = "exchange"
                       /\ exec.log[Len(exec.log)].result[1].status
                              \in {"cancelled", "rejected"}
                    \/ /\ ~exec.result[1].ok
                       /\ exec.result[1].cause \in ApiErrors
                       /\ exec.attempts = config.retry_attempts

\* An invalid price was turned down with nothing placed.
C21_WitnessInvalidPrice ==
    /\ exec.method = "execute_market_order"
    /\ exec.pc = "returned"
    /\ exec.trade.price = 0
    /\ exec.log = <<>>

\* A market order for half the dollar amount in shares was placed twice.
C21_Witness ==
    /\ exec.method = "execute_market_order"
    /\ exec.pc = "returned"
    /\ exec.trade.price = 2
    /\ exec.usd_amount = 2 * MaxSize
    /\ Cardinality(PlaceIdx) = 2
    /\ exec.result[1].ok

\* The arguments and the result of the calculate_size call made.
Sized == sizing # None /\ sizing.result # None

\* min(max_stake, 0.95 * your_balance) of the call made.
SizeCap == RMin(sizing.config.max_stake,
                RMul(sizing.your_balance[1], Frac(19, 20)))

\* size held to [min_stake, SizeCap], the cap winning when it is below
\* min_stake.
Clamped(size) ==
    IF RLess(SizeCap, size) \/ RLess(SizeCap, sizing.config.min_stake)
    THEN SizeCap
    ELSE IF RLess(size, sizing.config.min_stake)
    THEN sizing.config.min_stake
    ELSE size

\* C22: in Fixed mode the size returned is fixed_stake held to
\* [min_stake, min(max_stake, 0.95 * your_balance)], the same for every source
\* trade and every source balance; with fixed_stake 25, min_stake 5,
\* max_stake 100 and a balance of 1000 it is 25.
C22_FixedSize ==
    (Sized /\ sizing.config.sizing_mode = "Fixed") =>
        /\ sizing.result[1] = Clamped(sizing.config.fixed_stake)
        /\ \A trade \in SizerTrades, whale_balance \in SourceBalances :
              calculate_size(sizing.config, trade, sizing.your_balance[1],
                             whale_balance) = sizing.result[1]
        /\ ( /\ sizing.config.fixed_stake = Whole(25)
             /\ sizing.config.min_stake = Whole(5)
             /\ sizing.config.max_stake = Whole(100)
             /\ sizing.your_balance[1] = Whole(1000) )
               => sizing.result[1] = Whole(25)

\* test_fixed_sizing, sizing.rs 73-97
C22_Witness ==
    /\ Sized
    /\ sizing.config.sizing_mode = "Fixed"
    /\ sizing.config.fixed_stake = Whole(25)
    /\ sizing.config.max_stake = Whole(100)
    /\ sizing.trade[1] = [shares |-> Whole(100), price |-> Frac(1, 2)]
    /\ sizing.your_balance[1] = Whole(1000)
    /\ sizing.whale_balance[1] = Whole(10000)
    /\ sizing.result[1] = Whole(25)

\* The source balance of the call made, a balance below 1 counted as 1.
SourceOrOne ==
    IF RLess(sizing.whale_balance[1], Whole(1)) THEN Whole(1)
    ELSE sizing.whale_balance[1]

\* C23: in Proportional mode the size returned is
\* shares * price * (your_balance / max(whale_balance, 1)) raised to
\* min_stake, capped at max_stake and capped at 0.95 * your_balance; with
\* balances 1000 and 10000, 100 shares at 0.5, min_stake 5 and max_stake 100
\* it is 5.
C23_ProportionalSize ==
    (Sized /\ sizing.config.sizing_mode = "Proportional") =>
        LET notional == RMul(sizing.trade[1].shares, sizing.trade[1].price)
            scaled == RDiv(RMul(notional, sizing.your_balance[1]), SourceOrOne)
        IN  /\ sizing.result[1] = Clamped(scaled)
            /\ ( /\ sizing.trade[1] = [shares |-> Whole(100), price |-> Frac(1, 2)]
                 /\ sizing.your_balance[1] = Whole(1000)
                 /\ sizing.whale_balance[1] = Whole(10000)
                 /\ sizing.config.min_stake = Whole(5)
                 /\ sizing.config.max_stake = Whole(100) )
                   => sizing.result[1] = Whole(5)

\* A source balance of 0.5 counted as 1: 1 share at 0.5 with a balance of
\* 100 gives 50.
C23_Witness ==
    /\ Sized
    /\ sizing.config.sizing_mode = "Proportional"
    /\ sizing.config.max_stake = Whole(100)
    /\ sizing.trade[1] = [shares |-> Whole(1), price |-> Frac(1, 2)]
    /\ sizing.your_balance[1] = Whole(100)
    /\ sizing.whale_balance[1] = Frac(1, 2)
    /\ sizing.result[1] = Whole(50)

\* test_proportional_sizing, sizing.rs 99-124
C23_WitnessTest ==
    /\ Sized
    /\ sizing.config.sizing_mode = "Proportional"
    /\ sizing.config.max_stake = Whole(100)
    /\ sizing.trade[1] = [shares |-> Whole(100), price |-> Frac(1, 2)]
    /\ sizing.your_balance[1] = Whole(1000)
    /\ sizing.whale_balance[1] = Whole(10000)
    /\ sizing.result[1] = Whole(5)

\* C24: in every mode the size returned is at most max_stake and at most
\* 0.95 * your_balance, also when that is below min_stake.
C24_SizeCapped ==
    Sized =>
        /\ ~RLess(sizing.config.max_stake, sizing.result[1])
        /\ ~RLess(RMul(sizing.your_balance[1], Frac(19, 20)), sizing.result[1])

\* A balance of 4 holds a tier-sized trade to 3.8, below min_stake 5.
C24_Witness ==
    /\ Sized
    /\ sizing.config.sizing_mode = "TierBased"
    /\ sizing.config.min_stake = Whole(5)
    /\ sizing.your_balance[1] = Whole(4)
    /\ sizing.trade[1].shares = Whole(600)
    /\ sizing.result[1] = Frac(19, 5)

\* C25: the channel never holds more than its capacity, and it holds exactly
\* the trades whose send has returned and that main has not received, each
\* once and in sending order: a send on a full channel waits, nothing is
\* dropped and nothing is delivered twice.
C25_BoundedNoLoss ==
    /\ Len(queue) <= QueueCap
    /\ queue = sentLog

\* The channel is full again after main has taken a trade from it.
C25_Witness ==
    /\ Len(queue) = QueueCap
    /\ queue = sentLog
    /\ main.pc \notin {"recv", "verify"}
    /\ ev.trade # NoTrade

C28_ResetEveryDay ==
    (timer # None /\ ~timer.late) =>
        \A d \in 1..MaxDays :
            timer.now >= DayMinutes * (d + 1) => timer.resets[d] >= 1

\* C29: reset_daily_stats is called at most once in the window of one day
\* boundary.
C29_AtMostOncePerDay ==
    timer # None => \A d \in Days : timer.resets[d] <= 1

\* C29, its consequence: no second reset of a day wipes trades recorded
\* after the first.
C29_NoTradesWiped ==
    timer # None => ~timer.wiped

\* C27: no watcher task ever ends; a watcher whose connection attempt,
\* subscription or connection has ended makes a new connection attempt; and
\* a watcher waits only in its own sleep or for room in the channel, whatever
\* state the other watchers are in, while main takes trades whenever there
\* are any.
C27_WatchersRetryForever ==
    /\ [](\A w \in TrackedWallets :
            /\ ws[w].pc \in {"connect", "subscribe", "read", "send", "sleep"}
            /\ ws[w].pc = "send" => ws[w].trade # None)
    /\ \A w \in TrackedWallets, b \in BOOLEAN :
            (ws[w].last \in ConnectionEnds /\ ws[w].att = b) ~> (ws[w].att # b)
    /\ []((main.pc = "recv" /\ queue # <<>>) => ENABLED Recv)

\* One watcher is in its sleep after a failed connection attempt while the
\* other has sent a trade that main is working on.
C27_Witness ==
    /\ ws # None
    /\ ws["0xwhale1"].pc = "sleep"
    /\ ws["0xwhale1"].last = "connect_failed"
    /\ ws["0xwhale2"].pc = "read"
    /\ main.pc = "verify"
    /\ main.trade.wallet = "0xwhale2"

\* C30: with the watchers holding their senders the channel is never closed,
\* and main is always at a position of its loop: receiving, or in a stage of
\* the pipeline of the trade it received; nothing ends the loop.
C30_LoopNeverEnds ==
    main.pc # "panicked"

\* C30, what does end the loop: only the abort of execute_with_retry with
\* its attempts used up and no error kept (C34).
C30_OnlyUnwrapEndsLoop ==
    main.pc = "panicked" =>
        /\ main.last_error = None
        /\ main.attempts >= config.retry_attempts
        /\ ev.failure = "execute"

\* C31: no check_can_trade call reads the exposure map while a
\* reset_daily_stats call has zeroed the counters and not yet cleared the map:
\* a caller is never refused for pre-reset exposure entries after the counters
\* were reset.
C31_ResetAtomicForCallers ==
    [][ \A t \in AllThreads :
            ( /\ frame[t].pc = "cct_exposure"
              /\ frame'[t].pc = "done"
              /\ frame'[t].result = "Event exposure limit exceeded" ) =>
                ~ \E u \in AllThreads :
                      /\ frame[u].pc = "rds_exposure"
                      /\ state.total_volume_today = 0
                      /\ current_exposure(event_exposure, frame[t].event_id) > 0 ]_vars

\* C32: in the pipeline of one consumer and the daily-reset task, the daily
\* volume never exceeds max_daily_volume and no event group's exposure
\* exceeds max_exposure_per_event, also between the two writes of a
\* record_trade or reset_daily_stats call.
C32_LimitsHold ==
    /\ state.total_volume_today <= config.max_daily_volume
    /\ \A g \in Groups :
           current_exposure(event_exposure, g) <= config.max_exposure_per_event

\* Both limits are met exactly after a reset has happened in between: the
\* volume is at max_daily_volume with one group at max_exposure_per_event.
C32_Witness ==
    /\ state.total_volume_today = config.max_daily_volume
    /\ \E g \in Groups :
           current_exposure(event_exposure, g) = config.max_exposure_per_event
    /\ main.pc = "recv"
    /\ frame["timer"].pc = "done"

\* The callers that hold the mutex.
Holders(lock) == {u \in AllThreads : lock \in locks_held(frame[u].pc)}

\* A caller inside a call that cannot take the mutex of its next section.
Waiting(t) ==
    /\ frame[t].pc \notin {"idle", "done"}
    /\ ~LockFree(lock_wanted(frame[t].pc))

\* C33: a caller that holds a mutex holds the state mutex only and is about
\* to lock the exposure map, never the reverse; the state mutex has at most
\* one holder; and every caller that waits for a mutex waits for another
\* caller that is not waiting itself, so no set of calls waits in a cycle and
\* each call can run its at most three sections to the end.
C33_NoDeadlock ==
    /\ \A t \in AllThreads :
           locks_held(frame[t].pc) # {} =>
               /\ locks_held(frame[t].pc) = {"state"}
               /\ lock_wanted(frame[t].pc) = "exposure"
    /\ Cardinality(Holders("state")) <= 1
    /\ \A t \in AllThreads : stateLock = Some(t) <=> t \in Holders("state")
    /\ \A t \in AllThreads :
           Waiting(t) =>
               \E u \in Holders(lock_wanted(frame[t].pc)) : u # t /\ ~Waiting(u)

\* One caller is inside reset_daily_stats with the state mutex, about to
\* lock the exposure map, while the other waits for the state mutex in
\* the volume block of check_can_trade.
C33_Witness ==
    /\ frame["t1"].pc = "rds_exposure"
    /\ frame["t2"].pc = "cct_volume"
    /\ Waiting("t2")
    /\ ~Waiting("t1")

\* C34: execute_with_retry never aborts: a call is idle, in its loop or has
\* returned a value.
C34_NeverPanics ==
    exec.pc # "panicked"

\* C34, the bound on the calls: never more place_order calls than
\* retry_attempts, and a call that returned has a value.
C34_AtMostRetryAttempts ==
    /\ Cardinality(PlaceIdx) <= config.retry_attempts
    /\ exec.pc = "returned" => exec.result # None

\* C35: trip_reason is Some exactly when is_tripped; with a trigger of at
\* least 1, consecutive_errors at or above the trigger means the breaker is
\* tripped; and after a record_error made while tripped the breaker is
\* tripped with a reason.
C35_ReasonIffTripped ==
    /\ state.trip_reason # None <=> state.is_tripped
    /\ (config.cb_consecutive_trigger >= 1
           /\ state.consecutive_errors >= config.cb_consecutive_trigger)
          => state.is_tripped
    /\ (lastOp.op = "record_error" /\ lastOp.pre_state.is_tripped) =>
          /\ state.is_tripped
          /\ state.trip_reason # None

\* The breaker was reset after a trip and has tripped again, and one more
\* error was recorded on the tripped breaker.
C35_Witness ==
    /\ cbResetCalled
    /\ lastOp.op = "record_error"
    /\ lastOp.pre_state.is_tripped
    /\ state.is_tripped
    /\ state.trip_reason # None
    /\ state.consecutive_errors > config.cb_consecutive_trigger

====
